---- MODULE Spec2Model ----
(***************************************************************************)
(* Model of luisespcon/voice_to_notes: the local-transcription pipeline    *)
(* (voice_to_notes_V1) and the remote-transcription pipeline               *)
(* (voice_to_notes_V2).                                                    *)
(*                                                                         *)
(* A Python str is a sequence of one-character strings; every other Python *)
(* value is a tagged record [t, v]. The tag t is named before the payload  *)
(* v everywhere, so that TLC compares the tags of two values first and     *)
(* never the payloads of values of different types.                        *)
(***************************************************************************)
EXTENDS Integers, Sequences, FiniteSets, TLC

(***************************************************************************)
(* Python values                                                           *)
(***************************************************************************)
None == [t |-> "None", v |-> <<>>]
PyStr(s) == [t |-> "str", v |-> s]
PyList(l) == [t |-> "list", v |-> l]
PyDict(f) == [t |-> "dict", v |-> f]
PyInt(n) == [t |-> "int", v |-> n]
PyBool(b) == [t |-> "bool", v |-> b]
EmptyDict == PyDict(<<>>)
EmptyList == PyList(<<>>)

\* bool(x): the truth value Python gives a value in `if not x` / `x and ...`
Truthy(x) ==
    CASE x.t = "None" -> FALSE
      [] x.t = "str" -> Len(x.v) > 0
      [] x.t = "list" -> Len(x.v) > 0
      [] x.t = "dict" -> DOMAIN x.v # {}
      [] x.t = "int" -> x.v # 0
      [] x.t = "bool" -> x.v

\* What a call does: return a value or raise an exception.
Return(x) == [kind |-> "return", val |-> x, exc |-> "none"]
Raise(e) == [kind |-> "raise", val |-> None, exc |-> e]

\* A local assignment: F applied to the value of v.
With(v, F(_)) == F(v)

\* The statements after a call: F applied to what it returned; what it raised propagates.
Then(o, F(_)) == IF o.kind = "raise" THEN o ELSE F(o.val)

(***************************************************************************)
(* Strings                                                                 *)
(***************************************************************************)
Whitespace == {" ", "\n", "\t", "\r"}

RECURSIVE LStrip(_)
LStrip(s) == IF Len(s) > 0 /\ s[1] \in Whitespace THEN LStrip(Tail(s)) ELSE s

RECURSIVE RStrip(_)
RStrip(s) ==
    IF Len(s) > 0 /\ s[Len(s)] \in Whitespace
    THEN RStrip(SubSeq(s, 1, Len(s) - 1))
    ELSE s

\* str.strip()
Strip(s) == RStrip(LStrip(s))

\* s.startswith(p), s.endswith(p)
StartsWith(s, p) == Len(s) >= Len(p) /\ SubSeq(s, 1, Len(p)) = p
EndsWith(s, p) == Len(s) >= Len(p) /\ SubSeq(s, Len(s) - Len(p) + 1, Len(s)) = p

\* s[n:], s[:n] and s[:-n] for n >= 0
SliceFrom(s, n) == SubSeq(s, n + 1, Len(s))
SliceTo(s, n) == SubSeq(s, 1, IF n < Len(s) THEN n ELSE Len(s))
DropLast(s, n) == SubSeq(s, 1, IF Len(s) >= n THEN Len(s) - n ELSE 0)

\* needle in haystack, for two strings
IsSubstring(needle, hay) ==
    \E i \in 1..(Len(hay) - Len(needle) + 1) :
        SubSeq(hay, i, i + Len(needle) - 1) = needle

\* sep.join(parts)
RECURSIVE Join(_, _)
Join(sep, parts) ==
    IF Len(parts) = 0 THEN <<>>
    ELSE IF Len(parts) = 1 THEN parts[1]
    ELSE parts[1] \o sep \o Join(sep, Tail(parts))

(***************************************************************************)
(* json.loads                                                              *)
(***************************************************************************)
Digits == {"0", "1", "2", "3", "4", "5", "6", "7", "8", "9"}
DigitVal(c) ==
    CASE c = "0" -> 0 [] c = "1" -> 1 [] c = "2" -> 2 [] c = "3" -> 3
      [] c = "4" -> 4 [] c = "5" -> 5 [] c = "6" -> 6 [] c = "7" -> 7
      [] c = "8" -> 8 [] c = "9" -> 9

Parsed(x, p) == [ok |-> TRUE, val |-> x, pos |-> p]
ParseFail == [ok |-> FALSE, val |-> None, pos |-> 0]

At(s, i, c) == i <= Len(s) /\ s[i] = c

RECURSIVE SkipWs(_, _)
SkipWs(s, i) == IF i <= Len(s) /\ s[i] \in Whitespace THEN SkipWs(s, i + 1) ELSE i

\* index of the quote closing a string whose text starts at i; 0 if the
\* string is unterminated or holds a control character
RECURSIVE ScanString(_, _)
ScanString(s, i) ==
    IF i > Len(s) THEN 0
    ELSE IF s[i] = "\"" THEN i
    ELSE IF s[i] \in {"\n", "\t", "\r", "\\"} THEN 0
    ELSE ScanString(s, i + 1)

ParseString(s, i) ==
    With(ScanString(s, i + 1),
         LAMBDA j : IF j = 0 THEN ParseFail
                    ELSE Parsed(PyStr(SubSeq(s, i + 1, j - 1)), j + 1))

RECURSIVE ScanDigits(_, _)
ScanDigits(s, i) == IF i <= Len(s) /\ s[i] \in Digits THEN ScanDigits(s, i + 1) ELSE i

RECURSIVE DigitsValue(_)
DigitsValue(d) ==
    IF Len(d) = 0 THEN 0
    ELSE 10 * DigitsValue(SubSeq(d, 1, Len(d) - 1)) + DigitVal(d[Len(d)])

\* -?(0|[1-9][0-9]*)
ParseNumber(s, i) ==
    With(IF At(s, i, "-") THEN i + 1 ELSE i,
         LAMBDA b :
           With(IF At(s, b, "0") THEN b + 1 ELSE ScanDigits(s, b),
                LAMBDA e :
                  IF e = b THEN ParseFail
                  ELSE With(DigitsValue(SubSeq(s, b, e - 1)),
                            LAMBDA n : Parsed(PyInt(IF b > i THEN 0 - n ELSE n), e))))

LitNull == <<"n", "u", "l", "l">>
LitTrue == <<"t", "r", "u", "e">>
LitFalse == <<"f", "a", "l", "s", "e">>

RECURSIVE ParseValue(_, _)
RECURSIVE ParseMembers(_, _, _)
RECURSIVE ParseElements(_, _, _)

\* "key" : value , ... }   with i at the first key's opening quote
ParseMembers(s, i, acc) ==
    IF ~At(s, i, "\"") THEN ParseFail
    ELSE
      With(ParseString(s, i),
           LAMBDA key :
             IF ~key.ok THEN ParseFail
             ELSE
               With(SkipWs(s, key.pos),
                    LAMBDA c :
                      IF ~At(s, c, ":") THEN ParseFail
                      ELSE
                        With(ParseValue(s, SkipWs(s, c + 1)),
                             LAMBDA val :
                               IF ~val.ok THEN ParseFail
                               ELSE
                                 With(SkipWs(s, val.pos),
                                      LAMBDA e :
                                        IF At(s, e, "}")
                                        THEN Parsed(PyDict((key.val.v :> val.val) @@ acc), e + 1)
                                        ELSE IF At(s, e, ",")
                                        THEN ParseMembers(s, SkipWs(s, e + 1),
                                                          (key.val.v :> val.val) @@ acc)
                                        ELSE ParseFail))))

\* value , ... ]
ParseElements(s, i, acc) ==
    With(ParseValue(s, i),
         LAMBDA val :
           IF ~val.ok THEN ParseFail
           ELSE
             With(SkipWs(s, val.pos),
                  LAMBDA e :
                    IF At(s, e, "]") THEN Parsed(PyList(Append(acc, val.val)), e + 1)
                    ELSE IF At(s, e, ",")
                    THEN ParseElements(s, SkipWs(s, e + 1), Append(acc, val.val))
                    ELSE ParseFail))

ParseValue(s, i) ==
    IF i > Len(s) THEN ParseFail
    ELSE IF s[i] = "\"" THEN ParseString(s, i)
    ELSE IF s[i] = "{" THEN
        With(SkipWs(s, i + 1),
             LAMBDA j : IF At(s, j, "}") THEN Parsed(EmptyDict, j + 1)
                        ELSE ParseMembers(s, j, <<>>))
    ELSE IF s[i] = "[" THEN
        With(SkipWs(s, i + 1),
             LAMBDA j : IF At(s, j, "]") THEN Parsed(EmptyList, j + 1)
                        ELSE ParseElements(s, j, <<>>))
    ELSE IF i + 3 <= Len(s) /\ SubSeq(s, i, i + 3) = LitNull THEN Parsed(None, i + 4)
    ELSE IF i + 3 <= Len(s) /\ SubSeq(s, i, i + 3) = LitTrue THEN Parsed(PyBool(TRUE), i + 4)
    ELSE IF i + 4 <= Len(s) /\ SubSeq(s, i, i + 4) = LitFalse THEN Parsed(PyBool(FALSE), i + 5)
    ELSE ParseNumber(s, i)

\* json.loads(s): the value, or JSONDecodeError
JsonLoads(s) ==
    With(ParseValue(s, SkipWs(s, 1)),
         LAMBDA r : IF r.ok /\ SkipWs(s, r.pos) = Len(s) + 1
                    THEN Return(r.val)
                    ELSE Raise("JSONDecodeError"))

(***************************************************************************)
(* generate_gemini_summary: the Summarization Client and its Response      *)
(* Normalizer                                                              *)
(***************************************************************************)

resumen_ejecutivo ==
    <<"r", "e", "s", "u", "m", "e", "n", "_", "e", "j", "e", "c", "u", "t", "i", "v", "o">>

puntos_clave ==
    <<"p", "u", "n", "t", "o", "s", "_", "c", "l", "a", "v", "e">>

conceptos_importantes ==
    <<"c", "o", "n", "c", "e", "p", "t", "o", "s", "_", "i", "m", "p", "o", "r", "t", "a", "n", "t", "e", "s">>

preguntas_dudas ==
    <<"p", "r", "e", "g", "u", "n", "t", "a", "s", "_", "d", "u", "d", "a", "s">>

tareas_acciones ==
    <<"t", "a", "r", "e", "a", "s", "_", "a", "c", "c", "i", "o", "n", "e", "s">>

detalles_adicionales ==
    <<"d", "e", "t", "a", "l", "l", "e", "s", "_", "a", "d", "i", "c", "i", "o", "n", "a", "l", "e", "s">>

estructura_contenido ==
    <<"e", "s", "t", "r", "u", "c", "t", "u", "r", "a", "_", "c", "o", "n", "t", "e", "n", "i", "d", "o">>

required_keys ==
    <<resumen_ejecutivo,
      puntos_clave,
      conceptos_importantes,
      preguntas_dudas,
      tareas_acciones,
      detalles_adicionales,
      estructura_contenido>>

RequiredKeySet == {required_keys[i] : i \in 1..Len(required_keys)}

max_chars == 12000

\* "...\n[TEXTO TRUNCADO PARA ANALISIS]" (the source writes ANALISIS with an accent)
TruncationMarker ==
    <<".", ".", ".", "\n", "[", "T", "E", "X", "T", "O", " ", "T", "R", "U", "N", "C", "A", "D", "O", " ", "P", "A", "R", "A", " ", "A", "N", "A", "L", "I", "S", "I", "S", "]">>

\* The backquote character (a TLA+ string cannot hold it).
Backquote == "backquote"

FenceJson == <<Backquote, Backquote, Backquote, "j", "s", "o", "n">>

Fence == <<Backquote, Backquote, Backquote>>


\* The generative backend's answer to one generate_content call:
\*   error    the call raises (network failure, auth, rate limit, non-2xx)
\*   blocked  the call returns, and reading response.text raises ValueError
\*   text     the call returns response.text = text (possibly empty)
BackendError == [kind |-> "error", text |-> <<>>]
BackendBlocked == [kind |-> "blocked", text |-> <<>>]
BackendText(s) == [kind |-> "text", text |-> s]

\* The transcript as it is embedded in the prompt.
TruncateV1(text) ==
    IF Len(text) > max_chars THEN SliceTo(text, max_chars) \o TruncationMarker ELSE text

TruncateV2(text) == text

\* The f-string prompt: the fixed instructions around the embedded transcript.
Prompt(embedded) == [instrucciones |-> "resumen_academico_json", transcripcion |-> embedded]

\* A cleaning that leaves the fence where it is.
KeepFence(content) == content
\* Remove markdown code blocks if present.
StripFence(content) ==
    With(IF StartsWith(content, FenceJson) THEN SliceFrom(content, 7)
         ELSE IF StartsWith(content, Fence) THEN SliceFrom(content, 3)
         ELSE content,
         LAMBDA a : IF EndsWith(a, Fence) THEN DropLast(a, 3) ELSE a)

\* clean_content of V1, content of V2
CleanContentV1(raw) == Strip(StripFence(Strip(raw)))
CleanContentV2(raw) == StripFence(Strip(raw))

\* key in x, for a str key, as Python evaluates it on each type
Contains(x, key) ==
    CASE x.t = "dict" -> Return(PyBool(key \in DOMAIN x.v))
      [] x.t = "list" -> Return(PyBool(\E i \in 1..Len(x.v) : x.v[i] = PyStr(key)))
      [] x.t = "str" -> Return(PyBool(IsSubstring(key, x.v)))
      [] OTHER -> Raise("TypeError")

\* x[key] = []
SetItem(x, key) ==
    IF x.t = "dict" THEN Return(PyDict((key :> EmptyList) @@ x.v)) ELSE Raise("TypeError")

\* for key in required_keys: if key not in summary_json: summary_json[key] = []
RECURSIVE FillDefaults(_, _)
FillDefaults(x, keys) ==
    IF Len(keys) = 0 THEN Return(x)
    ELSE Then(Contains(x, Head(keys)),
              LAMBDA has :
                IF has.v THEN FillDefaults(x, Tail(keys))
                ELSE Then(SetItem(x, Head(keys)),
                          LAMBDA set : FillDefaults(set, Tail(keys))))

\* json.loads and the validation of the required keys (the inner try's body)
ParseAndValidate(content) ==
    Then(JsonLoads(content), LAMBDA summary_json : FillDefaults(summary_json, required_keys))

\* re.search(r'\{.*\}', s, re.DOTALL): the span from the first "{" to the last "}"
FirstIndex(s, c) ==
    IF \E i \in 1..Len(s) : s[i] = c
    THEN CHOOSE i \in 1..Len(s) : s[i] = c /\ \A j \in 1..(i - 1) : s[j] # c
    ELSE 0
LastIndex(s, c) ==
    IF \E i \in 1..Len(s) : s[i] = c
    THEN CHOOSE i \in 1..Len(s) : s[i] = c /\ \A j \in (i + 1)..Len(s) : s[j] # c
    ELSE 0
SearchBraces(s) ==
    With(<<FirstIndex(s, "{"), LastIndex(s, "}")>>,
         LAMBDA m : IF m[1] > 0 /\ m[2] > m[1]
                    THEN [found |-> TRUE, group |-> SubSeq(s, m[1], m[2])]
                    ELSE [found |-> FALSE, group |-> <<>>])

\* The fallback structure returned when no JSON can be read (accents dropped).
DegradedPrefix == 800
DegradedRecord(raw) ==
    PyDict(
      (resumen_ejecutivo :>
          PyStr(IF Len(raw) > DegradedPrefix
                THEN SliceTo(raw, DegradedPrefix) \o <<".", ".", ".">>
                ELSE raw))
      @@ (puntos_clave :>
            PyList(<<PyStr(<<"C", "o", "n", "t", "e", "n", "i", "d", "o", " ", "p", "r",
                             "o", "c", "e", "s", "a", "d", "o", " ", "p", "o", "r", " ",
                             "G", "e", "m", "i", "n", "i">>),
                     PyStr(<<"R", "e", "v", "i", "s", "a", "r", " ", "f", "o", "r", "m",
                             "a", "t", "o", " ", "d", "e", " ", "r", "e", "s", "p", "u",
                             "e", "s", "t", "a">>)>>))
      @@ (conceptos_importantes :>
            PyList(<<PyStr(<<"R", "e", "s", "p", "u", "e", "s", "t", "a", " ", "s", "i",
                             "n", " ", "f", "o", "r", "m", "a", "t", "o", " ", "J", "S",
                             "O", "N", " ", "v", "a", "l", "i", "d", "o">>)>>))
      @@ (preguntas_dudas :> EmptyList)
      @@ (tareas_acciones :>
            PyList(<<PyStr(<<"R", "e", "v", "i", "s", "a", "r", " ", "c", "o", "n", "f",
                             "i", "g", "u", "r", "a", "c", "i", "o", "n", " ", "d", "e",
                             " ", "p", "r", "o", "m", "p", "t">>)>>))
      @@ (detalles_adicionales :>
            PyList(<<PyStr(<<"C", "o", "n", "t", "e", "n", "i", "d", "o", " ", "g", "e",
                             "n", "e", "r", "a", "d", "o", " ", "p", "e", "r", "o", " ",
                             "f", "o", "r", "m", "a", "t", "o", " ", "i", "n", "c", "o",
                             "r", "r", "e", "c", "t", "o">>)>>))
      @@ (estructura_contenido :>
            PyList(<<PyStr(<<"G", "e", "m", "i", "n", "i", " ", "r", "e", "s", "p", "o",
                             "n", "d", "i", "o", " ", "c", "o", "r", "r", "e", "c", "t",
                             "a", "m", "e", "n", "t", "e">>),
                     PyStr(<<"F", "o", "r", "m", "a", "t", "o", " ", "d", "e", " ", "J",
                             "S", "O", "N", " ", "n", "e", "c", "e", "s", "i", "t", "a",
                             " ", "a", "j", "u", "s", "t", "e">>)>>)))

\* except json.JSONDecodeError: extract the embedded object, else the fallback structure
JsonErrorHandlerV1(raw, clean, outcome) ==
    IF outcome.kind = "raise" /\ outcome.exc = "JSONDecodeError"
    THEN With(SearchBraces(clean),
              LAMBDA m :
                IF ~m.found THEN Return(DegradedRecord(raw))
                ELSE With(JsonLoads(m.group),
                          LAMBDA extracted :
                            IF extracted.kind = "return" THEN Return(extracted.val)
                            ELSE Return(DegradedRecord(raw))))
    ELSE outcome

\* An outer handler that lets the exception through.
OuterHandlerReraise(outcome) == outcome
\* except Exception: return None
OuterHandler(outcome) == IF outcome.kind = "raise" THEN Return(None) ELSE outcome

\* response.text, read from the backend's answer
ResponseText(resp) ==
    CASE resp.kind = "error" -> Raise("APIError")
      [] resp.kind = "blocked" -> Raise("ValueError")
      [] resp.kind = "text" -> Return(PyStr(resp.text))

TryBodyV1(apiKey, resp) ==
    IF ~apiKey THEN Return(None)
    ELSE Then(ResponseText(resp),
              LAMBDA text :
                IF ~Truthy(text) THEN Return(None)
                ELSE With(CleanContentV1(text.v),
                          LAMBDA clean_content :
                            JsonErrorHandlerV1(text.v, clean_content,
                                               ParseAndValidate(clean_content))))

TryBodyV2(resp) ==
    Then(ResponseText(resp), LAMBDA text : ParseAndValidate(CleanContentV2(text.v)))

\* generate_gemini_summary(text, model): what the call does for its caller
GenerateGeminiSummaryV1(apiKey, resp) == OuterHandler(TryBodyV1(apiKey, resp))
GenerateGeminiSummaryV2(apiKey, resp) ==
    IF ~apiKey THEN Return(None) ELSE OuterHandler(TryBodyV2(resp))


(***************************************************************************)
(* fragment_audio: the Audio Segmenter (V2)                                *)
(***************************************************************************)
\* One exported chunk: chunk_<index>.mp3 holding audio[start:end] (ms).
Chunk(i, a, b) == [index |-> i, start |-> a, end |-> b]

\* A segmenter whose fourth chunk is as long as the others: the remainder is dropped.
FragmentAudioEqualChunks(duration_ms) ==
    IF duration_ms <= 10 * 60 * 1000
    THEN <<Chunk(0, 0, duration_ms)>>
    ELSE [k \in 1..4 |-> Chunk(k - 1, (k - 1) * (duration_ms \div 4), k * (duration_ms \div 4))]
FragmentAudio(duration_ms) ==
    IF duration_ms <= 10 * 60 * 1000
    THEN <<Chunk(0, 0, duration_ms)>>
    ELSE With(duration_ms \div 4,
              LAMBDA chunk_len :
                [k \in 1..4 |->
                   Chunk(k - 1, (k - 1) * chunk_len,
                         IF k - 1 < 3 THEN k * chunk_len ELSE duration_ms)])

(***************************************************************************)
(* transcribe_chunk, transcribe_all_chunks: the remote Transcription       *)
(* Client (V2)                                                             *)
(***************************************************************************)
RECURSIVE IntStr(_)
\* str(n) for n >= 0
IntStr(n) ==
    With(CHOOSE c \in Digits : DigitVal(c) = n % 10,
         LAMBDA d : IF n < 10 THEN <<d>> ELSE IntStr(n \div 10) \o <<d>>)
ErrorTag == <<"[", "E", "R", "R", "O", "R", "]", " ">>
ColonSpace == <<":", " ">>

\* What the inference endpoint does with one chunk's request:
\*   raise   session.post (or reading the body) raises
\*   http    a response with a status, a JSON "text" field (or none) and a body
HttpRaise == [kind |-> "raise", status |-> 0, hasText |-> FALSE, text |-> <<>>, body |-> <<>>]
HttpReply(status, hasText, text, body) ==
    [kind |-> "http", status |-> status, hasText |-> hasText, text |-> text, body |-> body]

TranscribeChunk(resp) ==
    IF resp.kind = "raise" THEN Raise("ClientError")
    ELSE IF resp.status = 200
    THEN Return(IF resp.hasText THEN resp.text ELSE <<>>)
    ELSE Return(ErrorTag \o IntStr(resp.status) \o ColonSpace \o resp.body)

\* One task of asyncio.gather: pending, done (returned), raised or cancelled;
\* finished is the task's place in the order of completion (0: not finished).
PendingTask == [state |-> "pending", result |-> <<>>, finished |-> 0]
NumFinished(tasks) == Cardinality({i \in 1..Len(tasks) : tasks[i].finished > 0})
FinishTask(tasks, i, outcome) ==
    [tasks EXCEPT ![i] =
        [state |-> IF outcome.kind = "raise" THEN "raised" ELSE "done",
         result |-> IF outcome.kind = "raise" THEN <<>> ELSE outcome.val,
         finished |-> NumFinished(tasks) + 1]]

\* A gather that hands the results back in the order the tasks finished.
GatherResultsByCompletion(tasks) ==
    [k \in 1..Len(tasks) |->
        tasks[CHOOSE i \in 1..Len(tasks) : tasks[i].finished = k].result]
\* await asyncio.gather(*tasks): the results, one per task, in the tasks' order
GatherResults(tasks) == [i \in 1..Len(tasks) |-> tasks[i].result]

\* asyncio.run's teardown after gather raised: the unfinished tasks are cancelled
CancelPending(tasks) ==
    [i \in 1..Len(tasks) |->
        IF tasks[i].state = "pending" THEN [tasks[i] EXCEPT !.state = "cancelled"]
        ELSE tasks[i]]
ParagraphSep == <<"\n", "\n">>

\* full_text = "\n\n".join(transcriptions)
AssembleTranscript(transcriptions) == Join(ParagraphSep, transcriptions)

(***************************************************************************)
(* generate_basic_summary: the Fallback Summarizer (V1)                    *)
(***************************************************************************)
\* s.split(c) for a one-character separator
RECURSIVE Split(_, _)
Split(s, c) ==
    With(FirstIndex(s, c),
         LAMBDA i : IF i = 0 THEN <<s>>
                    ELSE <<SubSeq(s, 1, i - 1)>> \o Split(SubSeq(s, i + 1, Len(s)), c))

\* [s.strip() for s in line.split('.') if s.strip()]
RECURSIVE StripNonEmpty(_)
StripNonEmpty(parts) ==
    IF Len(parts) = 0 THEN <<>>
    ELSE With(Strip(Head(parts)),
              LAMBDA p : (IF Len(p) > 0 THEN <<p>> ELSE <<>>) \o StripNonEmpty(Tail(parts)))

\* A summarizer that reads the first line only.
SentencesOfFirstLine(lines) ==
    IF Len(lines) = 0 THEN <<>> ELSE StripNonEmpty(Split(Head(lines), "."))
RECURSIVE Sentences(_)
Sentences(lines) ==
    IF Len(lines) = 0 THEN <<>>
    ELSE IF Len(Strip(Head(lines))) > 0
         THEN StripNonEmpty(Split(Head(lines), ".")) \o Sentences(Tail(lines))
         ELSE Sentences(Tail(lines))
SentenceSep == <<".", " ">>

GenerateBasicSummary(text) ==
    With(Sentences(Split(text, "\n")),
         LAMBDA sentences :
           PyDict(
             (resumen_ejecutivo :>
                PyStr(Join(SentenceSep,
                           SubSeq(sentences, 1, IF Len(sentences) < 5 THEN Len(sentences) ELSE 5))
                      \o <<".">>))
             @@ (puntos_clave :>
                   PyList(<<PyStr(<<"T", "r", "a", "n", "s", "c", "r", "i", "p", "c", "i", "o",
                                    "n", " ", "a", "u", "t", "o", "m", "a", "t", "i", "c", "a",
                                    " ", "p", "r", "o", "c", "e", "s", "a", "d", "a">>),
                            PyStr(<<"A", "n", "a", "l", "i", "s", "i", "s", " ", "b", "a", "s",
                                    "i", "c", "o", " ", "s", "i", "n", " ", "I", "A", " ", "e",
                                    "x", "t", "e", "r", "n", "a">>),
                            PyStr(<<"T", "e", "x", "t", "o", " ", "d", "e", " ">>
                                  \o IntStr(Len(text))
                                  \o <<" ", "c", "a", "r", "a", "c", "t", "e", "r", "e", "s", " ",
                                       "p", "r", "o", "c", "e", "s", "a", "d", "o">>)>>))
             @@ (conceptos_importantes :>
                   PyList(<<PyStr(<<"A", "u", "d", "i", "o", " ", "t", "r", "a", "n", "s", "c",
                                    "r", "i", "t", "o">>),
                            PyStr(<<"P", "r", "o", "c", "e", "s", "a", "m", "i", "e", "n", "t",
                                    "o", " ", "l", "o", "c", "a", "l">>)>>))
             @@ (preguntas_dudas :> EmptyList)
             @@ (tareas_acciones :>
                   PyList(<<PyStr(<<"R", "e", "v", "i", "s", "a", "r", " ", "t", "r", "a", "n",
                                    "s", "c", "r", "i", "p", "c", "i", "o", "n", " ", "c", "o",
                                    "m", "p", "l", "e", "t", "a">>),
                            PyStr(<<"C", "o", "n", "f", "i", "g", "u", "r", "a", "r", " ", "a",
                                    "c", "c", "e", "s", "o", " ", "a", " ", "G", "e", "m", "i",
                                    "n", "i", " ", "p", "a", "r", "a", " ", "a", "n", "a", "l",
                                    "i", "s", "i", "s", " ", "a", "v", "a", "n", "z", "a", "d",
                                    "o">>)>>))
             @@ (detalles_adicionales :> EmptyList)
             @@ (estructura_contenido :> EmptyList)))


(***************************************************************************)
(* create_obsidian_summary_only, create_obsidian_transcription_only: the   *)
(* Note Renderer                                                           *)
(***************************************************************************)
\* d.get(key, default) on a dict
Get(d, key, default) == IF key \in DOMAIN d.v THEN d.v[key] ELSE default

\* The items a for loop draws from x
Iterate(x) ==
    CASE x.t = "list" -> Return(x.v)
      [] x.t = "str" -> Return([i \in 1..Len(x.v) |-> PyStr(<<x.v[i]>>)])
      [] x.t = "dict" ->
            With(CHOOSE f \in [1..Cardinality(DOMAIN x.v) -> DOMAIN x.v] :
                    \A i, j \in 1..Cardinality(DOMAIN x.v) : i # j => f[i] # f[j],
                 LAMBDA order : Return([i \in 1..Cardinality(DOMAIN x.v) |-> PyStr(order[i])]))
      [] OTHER -> Raise("TypeError")

\* ':' in item, then item.split(':', 1) with both halves stripped
NamedLine(n, item) ==
    Then(Contains(item, <<":">>),
         LAMBDA has :
           IF ~has.v THEN Return([style |-> "plain", n |-> n, item |-> item])
           ELSE IF item.t # "str" THEN Raise("AttributeError")
           ELSE With(FirstIndex(item.v, ":"),
                     LAMBDA i :
                       Return([style |-> "named", n |-> n,
                               item |-> PyList(<<PyStr(Strip(SubSeq(item.v, 1, i - 1))),
                                                 PyStr(Strip(SubSeq(item.v, i + 1, Len(item.v))))>>)])))

PlainLine(n, item) == Return([style |-> "plain", n |-> n, item |-> item])

\* The lines of one section, or the exception formatting them raises.
RECURSIVE SectionLines(_, _, _)
SectionLines(items, named, n) ==
    IF Len(items) = 0 THEN Return(<<>>)
    ELSE Then(IF named THEN NamedLine(n, Head(items)) ELSE PlainLine(n, Head(items)),
              LAMBDA line :
                Then(SectionLines(Tail(items), named, n + 1),
                     LAMBDA rest : Return(<<line>> \o rest)))

\* The six list sections, in the order the renderer writes them.
SectionKeys ==
    <<puntos_clave, conceptos_importantes, preguntas_dudas, tareas_acciones,
      detalles_adicionales, estructura_contenido>>
\* The sections whose items are split at ':' into a name and a description.
NamedSections == {conceptos_importantes, estructura_contenido}

\* V1: if summary.get(key) and len(summary[key]) > 0: write the section
SectionV1(summary, key) ==
    With(Get(summary, key, None),
         LAMBDA x :
           IF ~Truthy(x) THEN Return(<<>>)
           ELSE Then(Iterate(x),
                     LAMBDA items :
                       Then(SectionLines(items, key \in NamedSections, 1),
                            LAMBDA lines : Return(<<[key |-> key, lines |-> lines]>>))))

\* V2: the heading is always written, then one line per item of summary.get(key, [])
SectionV2(summary, key) ==
    Then(Iterate(Get(summary, key, EmptyList)),
         LAMBDA items :
           Then(SectionLines(items, FALSE, 1),
                LAMBDA lines : Return(<<[key |-> key, lines |-> lines]>>)))

RECURSIVE Sections(_, _, _)
Sections(summary, keys, v1) ==
    IF Len(keys) = 0 THEN Return(<<>>)
    ELSE Then(IF v1 THEN SectionV1(summary, Head(keys)) ELSE SectionV2(summary, Head(keys)),
              LAMBDA first :
                Then(Sections(summary, Tail(keys), v1),
                     LAMBDA rest : Return(first \o rest)))
NoDisponible == PyStr(<<"N", "o", " ", "d", "i", "s", "p", "o", "n", "i", "b", "l", "e">>)

\* The markdown of the summary note, or the exception building it raises.
SummaryMarkdown(gemini_summary, v1) ==
    IF gemini_summary.t # "dict" THEN Raise("AttributeError")
    ELSE Then(Sections(gemini_summary, SectionKeys, v1),
              LAMBDA sections :
                Return([metadatos |-> TRUE,
                        resumen_ejecutivo |-> Get(gemini_summary, resumen_ejecutivo, NoDisponible),
                        sections |-> sections,
                        footer |-> v1]))

\* create_obsidian_summary_only of V1: True / False (write error), or raises
CreateObsidianSummaryOnlyV1(gemini_summary, writeOk) ==
    Then(SummaryMarkdown(gemini_summary, TRUE), LAMBDA md : Return(PyBool(writeOk)))

\* create_obsidian_summary_only of V2: returns None, or raises (no try around the write)
CreateObsidianSummaryOnlyV2(gemini_summary, writeOk) ==
    Then(SummaryMarkdown(gemini_summary, FALSE),
         LAMBDA md : IF ~writeOk THEN Raise("OSError") ELSE Return(None))

\* [p.strip() for p in text_content.split('\n') if p.strip()]
Paragraphs(text_content) == StripNonEmpty(Split(text_content, "\n"))

MinParagraph == 30
RECURSIVE TranscriptSections(_, _)
TranscriptSections(paragraphs, i) ==
    IF Len(paragraphs) = 0 THEN <<>>
    ELSE (IF Len(Head(paragraphs)) > MinParagraph
          THEN <<[n |-> i, paragraph |-> Head(paragraphs)]>>
          ELSE <<>>) \o TranscriptSections(Tail(paragraphs), i + 1)

TranscriptionMarkdown(text_content) ==
    With(Paragraphs(text_content),
         LAMBDA paragraphs :
           [metadatos |-> TRUE,
            longitud |-> Len(text_content),
            parrafos |-> Len(paragraphs),
            sections |-> TranscriptSections(paragraphs, 1),
            footer |-> TRUE])

\* create_obsidian_transcription_only: True, or False on a write error
CreateObsidianTranscriptionOnly(text_content, writeOk) == Return(PyBool(writeOk))


(***************************************************************************)
(* The environment: what the backends answer and what the audio holds      *)
(***************************************************************************)
\* A complete answer: one JSON object with the seven keys.
AnswerComplete ==
    <<"{", "\"", "r", "e", "s", "u", "m", "e", "n", "_", "e", "j", "e", "c", "u", "t", "i", "v", "o",
      "\"", ":", " ", "\"", "x", "\"", ",", " ", "\"", "p", "u", "n", "t", "o", "s", "_", "c", "l",
      "a", "v", "e", "\"", ":", " ", "[", "\"", "p", "\"", "]", ",", " ", "\"", "c", "o", "n", "c",
      "e", "p", "t", "o", "s", "_", "i", "m", "p", "o", "r", "t", "a", "n", "t", "e", "s", "\"", ":",
      " ", "[", "\"", "c", ":", " ", "d", "\"", "]", ",", " ", "\"", "p", "r", "e", "g", "u", "n",
      "t", "a", "s", "_", "d", "u", "d", "a", "s", "\"", ":", " ", "[", "]", ",", " ", "\"", "t",
      "a", "r", "e", "a", "s", "_", "a", "c", "c", "i", "o", "n", "e", "s", "\"", ":", " ", "[",
      "\"", "t", "\"", "]", ",", " ", "\"", "d", "e", "t", "a", "l", "l", "e", "s", "_", "a", "d",
      "i", "c", "i", "o", "n", "a", "l", "e", "s", "\"", ":", " ", "[", "\"", "e", "\"", "]", ",",
      " ", "\"", "e", "s", "t", "r", "u", "c", "t", "u", "r", "a", "_", "c", "o", "n", "t", "e", "n",
      "i", "d", "o", "\"", ":", " ", "[", "\"", "a", ":", " ", "b", "\"", "]", "}">>
\* "```json\n{\"resumen_ejecutivo\": \"x\"}\n```"
AnswerFenced ==
    <<Backquote, Backquote, Backquote, "j", "s", "o", "n", "\n", "{", "\"", "r", "e", "s", "u", "m", "e", "n", "_",
      "e", "j", "e", "c", "u", "t", "i", "v", "o", "\"", ":", " ", "\"", "x", "\"", "}", "\n", Backquote,
      Backquote, Backquote>>
\* Prose around an object: foo {"a":1} bar
AnswerProse ==
    <<"f", "o", "o", " ", "{", "\"", "a", "\"", ":", "1", "}", " ", "b", "a", "r">>
\* No JSON at all.
AnswerMalformed ==
    <<"L", "o", " ", "s", "i", "e", "n", "t", "o", ",", " ", "n", "o", " ", "p", "u", "e", "d", "o",
      ".">>
\* Valid JSON that is not an object.
AnswerArray ==
    <<"[", "1", ",", " ", "2", "]">>
\* A JSON array that holds the seven key names.
AnswerKeyArray ==
    <<"[", "\"", "r", "e", "s", "u", "m", "e", "n", "_", "e", "j", "e", "c", "u", "t", "i", "v", "o",
      "\"", ",", " ", "\"", "p", "u", "n", "t", "o", "s", "_", "c", "l", "a", "v", "e", "\"", ",",
      " ", "\"", "c", "o", "n", "c", "e", "p", "t", "o", "s", "_", "i", "m", "p", "o", "r", "t", "a",
      "n", "t", "e", "s", "\"", ",", " ", "\"", "p", "r", "e", "g", "u", "n", "t", "a", "s", "_",
      "d", "u", "d", "a", "s", "\"", ",", " ", "\"", "t", "a", "r", "e", "a", "s", "_", "a", "c",
      "c", "i", "o", "n", "e", "s", "\"", ",", " ", "\"", "d", "e", "t", "a", "l", "l", "e", "s",
      "_", "a", "d", "i", "c", "i", "o", "n", "a", "l", "e", "s", "\"", ",", " ", "\"", "e", "s",
      "t", "r", "u", "c", "t", "u", "r", "a", "_", "c", "o", "n", "t", "e", "n", "i", "d", "o", "\"",
      "]">>

\* The answers the generative backend gives in a pipeline run.
PipelineAnswers ==
    {BackendError, BackendBlocked, BackendText(<<>>),
     BackendText(AnswerComplete), BackendText(AnswerFenced), BackendText(AnswerProse),
     BackendText(AnswerMalformed), BackendText(AnswerArray), BackendText(AnswerKeyArray)}

\* The answers to check_gemini_access's test request.
AnswerHello == <<"H", "o", "l", "a", "!">>
CheckAnswers == {BackendError, BackendText(<<>>), BackendText(AnswerHello)}

\* What whisper writes for the audio (V1), or its failure.
TranscriptShort == <<"H", "o", "l", "a", " ", "a", " ", "t", "o", "d", "o", "s", ".", " ", "H", "o", "y", " ", "v",
      "e", "m", "o", "s", " ", "g", "r", "a", "f", "o", "s", ".">>
TranscriptLong ==
    <<"B", "i", "e", "n", "v", "e", "n", "i", "d", "o", "s", " ", "a", " ", "l", "a", " ", "c", "l",
      "a", "s", "e", " ", "d", "e", " ", "h", "o", "y", ".", " ", "V", "a", "m", "o", "s", " ", "a",
      " ", "r", "e", "p", "a", "s", "a", "r", ".", "\n", "\n", "T", "a", "r", "e", "a", ":", " ",
      "l", "e", "e", "r", " ", "e", "l", " ", "t", "e", "m", "a", " ", "2", ".", "\n", "F", "i", "n">>
WhisperOutcomes ==
    {[ok |-> FALSE, text |-> <<>>],
     [ok |-> TRUE, text |-> TranscriptShort],
     [ok |-> TRUE, text |-> TranscriptLong]}

\* The audio lengths of a pipeline run (V2): one chunk, and four chunks with a remainder.
Durations == {10 * 60 * 1000, 40 * 60 * 1000 + 3}

\* The speech the endpoint recognises in chunk number i, and its replies to that chunk.
ChunkSpeech(i) == <<"c">> \o IntStr(i)
ServiceBusy == <<"b", "u", "s", "y">>
ChunkReplies(i) ==
    {HttpRaise,
     HttpReply(200, TRUE, ChunkSpeech(i), <<>>),
     HttpReply(503, FALSE, <<>>, ServiceBusy)}


(***************************************************************************)
(* The pipelines: process_voice_note_gemini (V1) and main (V2)             *)
(***************************************************************************)
VARIABLES
    variant,        \* "V1": local transcription, "V2": remote transcription
    pc,             \* the pipeline's position
    apiKey,         \* whether GEMINI_API_KEY is set
    duration,       \* V2: the audio's length in ms
    chunks,         \* V2: chunk_paths
    tasks,          \* V2: the tasks of asyncio.gather, one per chunk
    replies,        \* V2: what the endpoint answered to each chunk's request
    transcriptions, \* V2: what transcribe_all_chunks returned
    text,           \* full_text (V2), text_content (V1)
    backend,        \* the backend's answer to the summarization request
    result,         \* what the call of generate_gemini_summary did
    requests,       \* the requests sent to the generative backend, in order
    summary,        \* gemini_summary (V1), summary_json (V2)
    usedFallback,   \* whether generate_basic_summary was called
    calls,          \* the renderer calls made, in order
    files,          \* the output files written
    success_count,  \* V1
    exit            \* "running", "ok", "exit1" (sys.exit(1)), "raised" (traceback)

vars ==
    <<variant, pc, apiKey, duration, chunks, tasks, replies, transcriptions, text,
      backend, result, requests, summary, usedFallback, calls, files, success_count, exit>>

NoReply == [kind |-> "none", status |-> 0, hasText |-> FALSE, text |-> <<>>, body |-> <<>>]
NoAnswer == [kind |-> "none", text |-> <<>>]
NotCalled == [kind |-> "none", val |-> None, exc |-> "none"]

\* One generate_content request: its prompt, and whether time.sleep(2) preceded it.
Request(prompt, slept) == [prompt |-> prompt, slept |-> slept]
HelloPrompt == [instrucciones |-> "Hello", transcripcion |-> <<>>]

\* The requests a call of generate_gemini_summary sends.
SummaryRequestsV1(key, t) == IF key THEN <<Request(Prompt(TruncateV1(t)), TRUE)>> ELSE <<>>
SummaryRequestsV2(key, t) == IF key THEN <<Request(Prompt(TruncateV2(t)), TRUE)>> ELSE <<>>

\* check_gemini_access(): True only for a non-empty answer to the test request
CheckGeminiAccess(key, answer) ==
    IF ~key THEN FALSE
    ELSE With(ResponseText(answer), LAMBDA t : t.kind = "return" /\ Truthy(t.val))
CheckRequests(key) == IF key THEN <<Request(HelloPrompt, FALSE)>> ELSE <<>>

Call(fn, arg) == [fn |-> fn, arg |-> arg]

Start(v, key, d) ==
    /\ variant = v
    /\ apiKey = key
    /\ duration = d
    /\ chunks = <<>>
    /\ tasks = <<>>
    /\ replies = <<>>
    /\ transcriptions = <<>>
    /\ text = <<>>
    /\ backend = NoAnswer
    /\ result = NotCalled
    /\ requests = <<>>
    /\ summary = None
    /\ usedFallback = FALSE
    /\ calls = <<>>
    /\ files = {}
    /\ success_count = 0
    /\ exit = "running"

Init ==
    /\ pc = "start"
    /\ \E v \in {"V1", "V2"}, key \in BOOLEAN, d \in Durations :
          /\ v = "V1" => d = 10 * 60 * 1000
          /\ Start(v, key, d)

\* The run ends: with a status, or with an uncaught exception.
Finish(status) == pc' = "done" /\ exit' = status

(* ------------------------------ V2: main ------------------------------ *)
\* import: HF_API_TOKEN must be set
V2Import ==
    /\ variant = "V2" /\ pc = "start"
    /\ \E hfToken \in BOOLEAN :
          IF hfToken THEN pc' = "fragment" /\ exit' = exit ELSE Finish("raised")
    /\ UNCHANGED <<variant, apiKey, duration, chunks, tasks, replies, transcriptions, text,
                   backend, result, requests, summary, usedFallback, calls, files,
                   success_count>>

\* A main that goes on with no chunk when the audio cannot be decoded.
V2FragmentGoesOn ==
    /\ variant = "V2" /\ pc = "fragment"
    /\ \E decodes \in BOOLEAN :
          chunks' = (IF decodes THEN FragmentAudio(duration) ELSE <<>>)
    /\ pc' = "issue"
    /\ UNCHANGED <<variant, apiKey, duration, tasks, replies, transcriptions, text,
                   backend, result, requests, summary, usedFallback, calls, files,
                   success_count, exit>>
\* chunk_paths = fragment_audio(args.audio_path, chunk_dir)
V2Fragment ==
    /\ variant = "V2" /\ pc = "fragment"
    /\ \E decodes \in BOOLEAN :
          IF decodes
          THEN chunks' = FragmentAudio(duration) /\ pc' = "issue" /\ exit' = exit
          ELSE chunks' = chunks /\ Finish("raised")
    /\ UNCHANGED <<variant, apiKey, duration, tasks, replies, transcriptions, text,
                   backend, result, requests, summary, usedFallback, calls, files,
                   success_count>>

\* transcribe_all_chunks: one task per chunk, handed to asyncio.gather
V2Issue ==
    /\ variant = "V2" /\ pc = "issue"
    /\ tasks' = [i \in 1..Len(chunks) |-> PendingTask]
    /\ replies' = [i \in 1..Len(chunks) |-> NoReply]
    /\ pc' = "gather"
    /\ UNCHANGED <<variant, apiKey, duration, chunks, transcriptions, text,
                   backend, result, requests, summary, usedFallback, calls, files,
                   success_count, exit>>

\* transcribe_chunk of one pending task runs to its end
V2ChunkDone ==
    /\ variant = "V2" /\ pc = "gather"
    /\ \E i \in 1..Len(tasks) :
          /\ tasks[i].state = "pending"
          /\ \E reply \in ChunkReplies(chunks[i].index) :
                /\ replies' = [replies EXCEPT ![i] = reply]
                /\ tasks' = FinishTask(tasks, i, TranscribeChunk(reply))
    /\ UNCHANGED <<variant, pc, apiKey, duration, chunks, transcriptions, text,
                   backend, result, requests, summary, usedFallback, calls, files,
                   success_count, exit>>

\* every task returned: gather returns the list of results
V2GatherReturn ==
    /\ variant = "V2" /\ pc = "gather"
    /\ \A i \in 1..Len(tasks) : tasks[i].state = "done"
    /\ transcriptions' = GatherResults(tasks)
    /\ pc' = "assemble"
    /\ UNCHANGED <<variant, apiKey, duration, chunks, tasks, replies, text,
                   backend, result, requests, summary, usedFallback, calls, files,
                   success_count, exit>>

\* a task raised: gather raises in main, asyncio.run cancels what is left
V2GatherRaise ==
    /\ variant = "V2" /\ pc = "gather"
    /\ \E i \in 1..Len(tasks) : tasks[i].state = "raised"
    /\ tasks' = CancelPending(tasks)
    /\ Finish("raised")
    /\ UNCHANGED <<variant, apiKey, duration, chunks, replies, transcriptions, text,
                   backend, result, requests, summary, usedFallback, calls, files,
                   success_count>>

\* full_text = "\n\n".join(transcriptions); save_transcription(full_text, ...)
V2Assemble ==
    /\ variant = "V2" /\ pc = "assemble"
    /\ text' = AssembleTranscript(transcriptions)
    /\ \E writeOk \in BOOLEAN :
          IF writeOk
          THEN files' = files \cup {"txt"} /\ pc' = "summarize" /\ exit' = exit
          ELSE files' = files /\ Finish("raised")
    /\ UNCHANGED <<variant, apiKey, duration, chunks, tasks, replies, transcriptions,
                   backend, result, requests, summary, usedFallback, calls,
                   success_count>>

\* summary_json = generate_gemini_summary(full_text)
V2Summarize ==
    /\ variant = "V2" /\ pc = "summarize"
    /\ \E answer \in PipelineAnswers :
          /\ backend' = IF apiKey THEN answer ELSE NoAnswer
          /\ requests' = requests \o SummaryRequestsV2(apiKey, text)
          /\ With(GenerateGeminiSummaryV2(apiKey, answer),
                  LAMBDA out :
                    /\ result' = out
                    /\ IF out.kind = "raise"
                       THEN summary' = summary /\ Finish("raised")
                       ELSE summary' = out.val /\ pc' = "render" /\ exit' = exit)
    /\ UNCHANGED <<variant, apiKey, duration, chunks, tasks, replies, transcriptions, text,
                   usedFallback, calls, files, success_count>>

\* create_obsidian_summary_only(summary_json, base_name, summary_path)
V2Render ==
    /\ variant = "V2" /\ pc = "render"
    /\ calls' = Append(calls, Call("create_obsidian_summary_only", summary))
    /\ \E writeOk \in BOOLEAN :
          With(CreateObsidianSummaryOnlyV2(summary, writeOk),
               LAMBDA out :
                 IF out.kind = "raise"
                 THEN files' = files /\ Finish("raised")
                 ELSE files' = files \cup {"resumen.md"} /\ Finish("ok"))
    /\ UNCHANGED <<variant, apiKey, duration, chunks, tasks, replies, transcriptions, text,
                   backend, result, requests, summary, usedFallback, success_count>>

(* -------------------- V1: process_voice_note_gemini -------------------- *)
\* os.path.exists(audio_file)
V1Start ==
    /\ variant = "V1" /\ pc = "start"
    /\ \E exists \in BOOLEAN :
          IF exists THEN pc' = "transcribe" /\ exit' = exit ELSE Finish("exit1")
    /\ UNCHANGED <<variant, apiKey, duration, chunks, tasks, replies, transcriptions, text,
                   backend, result, requests, summary, usedFallback, calls, files,
                   success_count>>

\* Steps 1 and 2: transcribe_audio, then read the text file it wrote
V1Transcribe ==
    /\ variant = "V1" /\ pc = "transcribe"
    /\ \E whisper \in WhisperOutcomes, readOk \in BOOLEAN :
          IF ~whisper.ok
          THEN files' = files /\ text' = text /\ Finish("exit1")
          ELSE /\ files' = files \cup {"txt"}
               /\ IF readOk
                  THEN text' = whisper.text /\ pc' = "summarize" /\ exit' = exit
                  ELSE text' = text /\ Finish("exit1")
    /\ UNCHANGED <<variant, apiKey, duration, chunks, tasks, replies, transcriptions,
                   backend, result, requests, summary, usedFallback, calls,
                   success_count>>

\* Step 3: check_gemini_access, generate_gemini_summary, generate_basic_summary
V1Summarize ==
    /\ variant = "V1" /\ pc = "summarize"
    /\ \E check \in CheckAnswers, answer \in PipelineAnswers :
          With(CheckGeminiAccess(apiKey, check),
               LAMBDA access :
                 /\ backend' = IF access THEN answer ELSE NoAnswer
                 /\ requests' = requests \o CheckRequests(apiKey)
                                   \o (IF access THEN SummaryRequestsV1(apiKey, text) ELSE <<>>)
                 /\ With(IF access THEN GenerateGeminiSummaryV1(apiKey, answer) ELSE NotCalled,
                         LAMBDA out :
                           /\ result' = out
                           /\ IF out.kind = "raise"
                              THEN /\ summary' = summary /\ usedFallback' = usedFallback
                                   /\ Finish("raised")
                              ELSE /\ usedFallback' = ~Truthy(out.val)
                                   /\ summary' = IF Truthy(out.val) THEN out.val
                                                 ELSE GenerateBasicSummary(text)
                                   /\ pc' = "render" /\ exit' = exit))
    /\ UNCHANGED <<variant, apiKey, duration, chunks, tasks, replies, transcriptions, text,
                   calls, files, success_count>>

\* Step 4.1: create_obsidian_summary_only(gemini_summary, ...)
V1RenderSummary ==
    /\ variant = "V1" /\ pc = "render"
    /\ calls' = Append(calls, Call("create_obsidian_summary_only", summary))
    /\ \E writeOk \in BOOLEAN :
          With(CreateObsidianSummaryOnlyV1(summary, writeOk),
               LAMBDA out :
                 IF out.kind = "raise"
                 THEN files' = files /\ success_count' = success_count /\ Finish("raised")
                 ELSE /\ files' = IF out.val.v THEN files \cup {"resumen.md"} ELSE files
                      /\ success_count' = IF out.val.v THEN success_count + 1 ELSE success_count
                      /\ pc' = "render_transcription" /\ exit' = exit)
    /\ UNCHANGED <<variant, apiKey, duration, chunks, tasks, replies, transcriptions, text,
                   backend, result, requests, summary, usedFallback>>

\* Step 4.2: create_obsidian_transcription_only(text_content, ...)
V1RenderTranscription ==
    /\ variant = "V1" /\ pc = "render_transcription"
    /\ calls' = Append(calls, Call("create_obsidian_transcription_only", PyStr(text)))
    /\ \E writeOk \in BOOLEAN :
          With(CreateObsidianTranscriptionOnly(text, writeOk),
               LAMBDA out :
                 /\ files' = IF out.val.v THEN files \cup {"transcripcion.md"} ELSE files
                 /\ success_count' = IF out.val.v THEN success_count + 1 ELSE success_count)
    /\ pc' = "finish"
    /\ UNCHANGED <<variant, apiKey, duration, chunks, tasks, replies, transcriptions, text,
                   backend, result, requests, summary, usedFallback, exit>>

\* A final result that takes one file for success.
V1FinishAtLeastOne ==
    /\ variant = "V1" /\ pc = "finish"
    /\ success_count' = success_count + 1
    /\ IF success_count + 1 >= 1 THEN Finish("ok") ELSE Finish("exit1")
    /\ UNCHANGED <<variant, apiKey, duration, chunks, tasks, replies, transcriptions, text,
                   backend, result, requests, summary, usedFallback, calls, files>>
\* Step 4.3 and the final result: True (exit 0) when success_count >= 2
V1Finish ==
    /\ variant = "V1" /\ pc = "finish"
    /\ success_count' = success_count + 1
    /\ IF success_count + 1 >= 2 THEN Finish("ok") ELSE Finish("exit1")
    /\ UNCHANGED <<variant, apiKey, duration, chunks, tasks, replies, transcriptions, text,
                   backend, result, requests, summary, usedFallback, calls, files>>

Next ==
    \/ V2Import
    \/ V2Fragment
    \/ V2Issue
    \/ V2ChunkDone
    \/ V2GatherReturn
    \/ V2GatherRaise
    \/ V2Assemble
    \/ V2Summarize
    \/ V2Render
    \/ V1Start
    \/ V1Transcribe
    \/ V1Summarize
    \/ V1RenderSummary
    \/ V1RenderTranscription
    \/ V1Finish

Spec == Init /\ [][Next]_vars


(***************************************************************************)
(* generate_gemini_summary called on its own: every subset of the seven    *)
(* keys, bare, fenced and inside prose; unreadable answers around the 800  *)
(* characters of the fallback structure; transcripts around max_chars      *)
(***************************************************************************)
\* The JSON text of a value the backend writes for a key.
ValueText(key) ==
    IF key = resumen_ejecutivo THEN <<"\"", "x", "\"">> ELSE <<"[", "\"", "p", "\"", "]">>
MemberText(key) == <<"\"">> \o key \o <<"\"", ":", " ">> \o ValueText(key)
RECURSIVE MembersText(_, _)
MembersText(keys, present) ==
    IF Len(keys) = 0 THEN <<>>
    ELSE IF Head(keys) \in present
    THEN <<MemberText(Head(keys))>> \o MembersText(Tail(keys), present)
    ELSE MembersText(Tail(keys), present)
\* A JSON object holding the keys of `present`, in the order of required_keys.
ObjectText(present) ==
    <<"{">> \o Join(<<",", " ">>, MembersText(required_keys, present)) \o <<"}">>

\* The ways an answer carries its object: a json fence, a plain fence, prose around it.
WrapFenceJson(o) == FenceJson \o <<"\n">> \o o \o <<"\n">> \o Fence
WrapFence(o) == Fence \o <<"\n">> \o o \o <<"\n">> \o Fence
WrapProse(o) == <<"A", "q", "u", "i", " ", "v", "a", ":", " ">> \o o \o <<" ", "F", "i", "n", ".">>
ObjectAnswers ==
    UNION {{BackendText(ObjectText(p)), BackendText(WrapFenceJson(ObjectText(p))),
            BackendText(WrapFence(ObjectText(p))), BackendText(WrapProse(ObjectText(p)))} :
           p \in SUBSET RequiredKeySet}

Repeat(c, n) == [i \in 1..n |-> c]
\* How far around DegradedPrefix the lengths of the unreadable answers go.
PadSpread == 2
\* {"a": 1   and   foo {no json} bar   and blanks only
AnswerUnclosed == <<"{", "\"", "a", "\"", ":", " ", "1">>
AnswerBadBraces == <<"f", "o", "o", " ", "{", "n", "o", " ", "j", "s", "o", "n", "}", " ", "b", "a", "r">>
AnswerBlank == <<" ", "\n", " ">>
MalformedAnswers ==
    {BackendText(Repeat("x", n)) :
        n \in (DegradedPrefix - PadSpread)..(DegradedPrefix + PadSpread)}
    \cup {BackendText(AnswerMalformed), BackendText(AnswerUnclosed),
          BackendText(AnswerBadBraces), BackendText(AnswerBlank)}
\* Answers that are not one bare object, as they come and inside a fence: prose,
\* an array, prose around an object, an object with blanks around it.
FenceContents ==
    {AnswerMalformed, AnswerArray, AnswerProse,
     <<" ">> \o ObjectText({puntos_clave}) \o <<"\n">>}
\* The fenced forms of an answer: a json fence, a plain fence, a json fence with
\* blanks around it.
Wrappings(c) == {WrapFenceJson(c), WrapFence(c), <<"\n">> \o WrapFenceJson(c) \o <<" ">>}
FenceAnswers ==
    UNION {{BackendText(w) : w \in {c} \cup Wrappings(c)} : c \in FenceContents}
SummarizerAnswers ==
    {BackendError, BackendBlocked, BackendText(<<>>),
     BackendText(AnswerArray), BackendText(AnswerKeyArray)}
    \cup ObjectAnswers \cup MalformedAnswers \cup FenceAnswers

\* How far around max_chars the lengths of the long transcripts go.
LenSpread == 2
LongTranscripts ==
    {Repeat("a", n) : n \in (max_chars - LenSpread)..(max_chars + LenSpread)}
\* The answers tried with a transcript: all of them with the short one, two with a long one.
AnswersFor(t) ==
    IF t = TranscriptShort THEN SummarizerAnswers
    ELSE {BackendError, BackendText(AnswerComplete)}

InitSummarizer ==
    /\ pc = "call"
    /\ variant \in {"V1", "V2"}
    /\ apiKey \in BOOLEAN
    /\ text \in {TranscriptShort} \cup LongTranscripts
    /\ duration = 0
    /\ chunks = <<>>
    /\ tasks = <<>>
    /\ replies = <<>>
    /\ transcriptions = <<>>
    /\ backend = NoAnswer
    /\ result = NotCalled
    /\ requests = <<>>
    /\ summary = None
    /\ usedFallback = FALSE
    /\ calls = <<>>
    /\ files = {}
    /\ success_count = 0
    /\ exit = "running"

\* generate_gemini_summary(text) of V1
CallGenerateGeminiSummaryV1 ==
    /\ variant = "V1" /\ pc = "call"
    /\ \E answer \in AnswersFor(text) :
          /\ backend' = IF apiKey THEN answer ELSE NoAnswer
          /\ requests' = requests \o SummaryRequestsV1(apiKey, text)
          /\ result' = GenerateGeminiSummaryV1(apiKey, answer)
    /\ pc' = "returned"
    /\ UNCHANGED <<variant, apiKey, duration, chunks, tasks, replies, transcriptions, text,
                   summary, usedFallback, calls, files, success_count, exit>>

\* generate_gemini_summary(text) of V2
CallGenerateGeminiSummaryV2 ==
    /\ variant = "V2" /\ pc = "call"
    /\ \E answer \in AnswersFor(text) :
          /\ backend' = IF apiKey THEN answer ELSE NoAnswer
          /\ requests' = requests \o SummaryRequestsV2(apiKey, text)
          /\ result' = GenerateGeminiSummaryV2(apiKey, answer)
    /\ pc' = "returned"
    /\ UNCHANGED <<variant, apiKey, duration, chunks, tasks, replies, transcriptions, text,
                   summary, usedFallback, calls, files, success_count, exit>>

NextSummarizer ==
    \/ CallGenerateGeminiSummaryV1
    \/ CallGenerateGeminiSummaryV2

SpecSummarizer == InitSummarizer /\ [][NextSummarizer]_vars

(***************************************************************************)
(* fragment_audio called on audio of every length around the threshold     *)
(***************************************************************************)
\* How far around 10 and 40 minutes (and above 0) the audio lengths go.
SegSpread == 16
SegmenterDurations ==
    (1..SegSpread)
    \cup ((10 * 60 * 1000 - SegSpread)..(10 * 60 * 1000 + SegSpread))
    \cup ((40 * 60 * 1000 - SegSpread)..(40 * 60 * 1000 + SegSpread))

InitSegmenter ==
    /\ pc = "fragment"
    /\ \E d \in SegmenterDurations : Start("V2", TRUE, d)

NextSegmenter == V2Fragment

SpecSegmenter == InitSegmenter /\ [][NextSegmenter]_vars


(***************************************************************************)
(* Properties of the pipelines (Spec)                                      *)
(***************************************************************************)
IsCompleteRecord(x) == x.t = "dict" /\ RequiredKeySet \subseteq DOMAIN x.v

\* C1: in every pipeline run, V1 and V2 alike, whenever create_obsidian_summary_only
\* is invoked the record passed to it is non-null and holds all seven fields,
\* whatever the summarization backend answered.
C1_RendererGetsCompleteRecord ==
    \A i \in 1..Len(calls) :
        calls[i].fn = "create_obsidian_summary_only" => IsCompleteRecord(calls[i].arg)

Rendered == {calls[i].fn : i \in 1..Len(calls)}

\* C2: when generate_gemini_summary returned None, the pipeline calls the fallback
\* summarizer and ends with both notes (summary and transcript) rendered, without
\* an exception.
C2_NullResultFallsBack ==
    result = Return(None) =>
        /\ usedFallback
        /\ exit # "raised"
        /\ pc = "done" =>
              Rendered = {"create_obsidian_summary_only", "create_obsidian_transcription_only"}

\* What the call for chunk number i (slot i + 1) returned.
ChunkTexts == [i \in 1..Len(chunks) |-> TranscribeChunk(replies[i]).val]

\* C4: for N chunks submitted in index order and every order in which the N
\* responses arrive, slot i of the result holds the text of chunk i and the
\* assembled transcript is the chunk texts joined in index order.
C4_TranscriptInChunkOrder ==
    (variant = "V2" /\ transcriptions # <<>>) =>
        /\ transcriptions = ChunkTexts
        /\ pc # "assemble" => text = Join(ParagraphSep, ChunkTexts)

\* Four chunks answered in the reverse of their order, and the transcript assembled.
C4_Witness ==
    /\ variant = "V2" /\ pc = "summarize"
    /\ Len(tasks) = 4
    /\ \A i \in 1..4 : tasks[i].finished = 5 - i /\ replies[i].status = 200
    /\ text = Join(ParagraphSep, <<ChunkSpeech(0), ChunkSpeech(1), ChunkSpeech(2), ChunkSpeech(3)>>)

CallFailed(r) == r.kind = "raise" \/ (r.kind = "http" /\ r.status # 200)

\* C5: a failure of one chunk's call is recorded as an inline error marker in that
\* chunk's own slot and does not fail the batch: the results are still returned,
\* slot by slot, and the pipeline goes on to assemble the transcript.
C5_FailureIsInlineMarker ==
    \A i \in 1..Len(tasks) :
        (tasks[i].finished > 0 /\ CallFailed(replies[i])) =>
            /\ tasks[i].state = "done"
            /\ StartsWith(tasks[i].result, ErrorTag)
            /\ pc # "gather" =>
                  /\ Len(transcriptions) = Len(tasks)
                  /\ transcriptions[i] = tasks[i].result

\* C6: once the N chunk requests are issued, every one of them runs to its end (its
\* result or its own failure), and the pipeline neither goes on nor ends before all
\* N have finished.
C6_AllRequestsFinish ==
    (variant = "V2" /\ tasks # <<>> /\ pc # "gather") =>
        \A i \in 1..Len(tasks) : tasks[i].state \in {"done", "raised"}

(***************************************************************************)
(* Properties of fragment_audio (SpecSegmenter)                            *)
(***************************************************************************)
\* C7: an audio of at most 10 minutes gives exactly one chunk covering the whole
\* file; a longer one gives exactly 4 chunks in index order, the first three of
\* length floor(d / 4), each starting where the one before ends, the last ending
\* at the end of the audio, so that the four lengths sum to d.
C7_SegmenterPolicy ==
    pc = "issue" =>
        IF duration <= 10 * 60 * 1000
        THEN chunks = <<[index |-> 0, start |-> 0, end |-> duration]>>
        ELSE /\ Len(chunks) = 4
             /\ \A k \in 1..4 : chunks[k].index = k - 1
             /\ chunks[1].start = 0
             /\ \A k \in 1..3 :
                   /\ chunks[k].end - chunks[k].start = duration \div 4
                   /\ chunks[k + 1].start = chunks[k].end
             /\ chunks[4].end = duration
             /\ (chunks[1].end - chunks[1].start) + (chunks[2].end - chunks[2].start)
                  + (chunks[3].end - chunks[3].start) + (chunks[4].end - chunks[4].start)
                = duration

\* 40 minutes and 3 ms: four chunks, the last one 3 ms longer than the others.
C7_Witness ==
    /\ pc = "issue"
    /\ duration = 40 * 60 * 1000 + 3
    /\ Len(chunks) = 4
    /\ chunks[4].end - chunks[4].start = 10 * 60 * 1000 + 3

(***************************************************************************)
(* Properties of generate_gemini_summary (SpecSummarizer)                  *)
(***************************************************************************)
\* clean_content (V1) / content (V2) of the backend's answer
Cleaned ==
    IF variant = "V1" THEN CleanContentV1(backend.text) ELSE CleanContentV2(backend.text)
DirectParse == JsonLoads(Cleaned)
EmbeddedParse == JsonLoads(SearchBraces(Cleaned).group)
\* The JSON object the answer parses to: by the direct parse, else by the extraction
\* of the span from the first "{" to the last "}".
ParsedObjects ==
    IF DirectParse.kind = "return"
    THEN (IF DirectParse.val.t = "dict" THEN {DirectParse.val} ELSE {})
    ELSE IF SearchBraces(Cleaned).found /\ EmbeddedParse.kind = "return"
              /\ EmbeddedParse.val.t = "dict"
    THEN {EmbeddedParse.val}
    ELSE {}
Completed(obj) ==
    PyDict([k \in DOMAIN obj.v \cup RequiredKeySet |->
               IF k \in DOMAIN obj.v THEN obj.v[k] ELSE EmptyList])

\* C3: for every answer that parses to a JSON object, by the direct parse or by the
\* embedded-object extraction, and every subset of the seven fields missing from
\* it, the record returned holds all seven fields: each missing one with an empty
\* list, each present one unchanged.
C3_ParsedObjectIsCompleted ==
    (pc = "returned" /\ backend.kind = "text") =>
        \A obj \in ParsedObjects : result = Return(Completed(obj))

BackendFailed ==
    \/ ~apiKey
    \/ backend.kind = "error"
    \/ backend.kind = "text" /\ backend.text = <<>>

\* C8: on any backend error (the request fails, the answer is empty, no API key is
\* set) generate_gemini_summary returns None; and it never raises.
C8_SoftFail ==
    pc = "returned" =>
        /\ result.kind = "return"
        /\ BackendFailed => result = Return(None)

\* The request failed with the key set, and the caller got None.
C8_Witness ==
    /\ pc = "returned"
    /\ apiKey
    /\ backend = BackendError
    /\ result = Return(None)

\* C9: the transcript embedded in a request is bounded: one longer than 12,000
\* characters is cut to its first 12,000 with the truncation marker appended, one
\* of at most 12,000 is sent unchanged, and no request carries more than 12,000
\* transcript characters plus the marker.
C9_PromptIsBounded ==
    \A i \in 1..Len(requests) :
        /\ Len(requests[i].prompt.transcripcion) <= 12000 + Len(TruncationMarker)
        /\ Len(text) > 12000 =>
              requests[i].prompt.transcripcion = SubSeq(text, 1, 12000) \o TruncationMarker
        /\ Len(text) <= 12000 => requests[i].prompt.transcripcion = text

AllParsingFails ==
    /\ backend.kind = "text" /\ backend.text # <<>>
    /\ DirectParse.kind = "raise"
    /\ ~(SearchBraces(Cleaned).found /\ EmbeddedParse.kind = "return")

\* C10: when the backend answered non-empty text and every parsing attempt fails,
\* no exception reaches the caller: the record returned has the first 800
\* characters of the raw answer in resumen_ejecutivo and fixed values in the other
\* fields.
C10_DegradedRecord ==
    (pc = "returned" /\ AllParsingFails) =>
        /\ result.kind = "return"
        /\ IsCompleteRecord(result.val)
        /\ result.val.v[resumen_ejecutivo].t = "str"
        /\ SliceTo(result.val.v[resumen_ejecutivo].v, 800) = SliceTo(backend.text, 800)
        /\ \A k \in RequiredKeySet \ {resumen_ejecutivo} :
              result.val.v[k] = DegradedRecord(<<>>).v[k]


(***************************************************************************)
(* Properties of the pipelines after the summarization stage (Spec)        *)
(***************************************************************************)
\* Step 3 is behind: the transcript was read and the summarization stage has run.
SummarizationDone == usedFallback \/ result.kind # "none"

\* C11: given a successful transcription, whatever the summarization backend did,
\* the summary handed on is a record (the error was absorbed into valid data) and
\* the run does not end before the note renderers were invoked: the summary-note
\* renderer, and in V1 the transcript-note renderer after it.
C11_RenderingIsReached ==
    (pc = "done" /\ SummarizationDone) =>
        /\ summary.t = "dict"
        /\ "create_obsidian_summary_only" \in Rendered
        /\ variant = "V1" => "create_obsidian_transcription_only" \in Rendered


\* C12: a run reports success (exit status 0) exactly when at least two of the
\* three output files (plain transcript, summary note, transcript note) were
\* produced; with fewer than two it reports failure and the exit status is not 0.
C12_SuccessIsTwoOfThree ==
    pc = "done" =>
        /\ exit = "ok" <=> Cardinality(files) >= 2
        /\ Cardinality(files) < 2 => exit \in {"exit1", "raised"}

\* Both renderers ran and could not write their file: only the plain transcript
\* exists and the run ends with exit status 1.
C12_Witness ==
    /\ variant = "V1" /\ pc = "done"
    /\ Len(calls) = 2
    /\ files = {"txt"}
    /\ success_count = 1
    /\ exit = "exit1"


\* The chunks cover the audio from its first to its last millisecond, each one
\* starting where the one before ends.
CoversAudio(cs) ==
    /\ cs[1].start = 0
    /\ cs[Len(cs)].end = duration
    /\ \A k \in 1..(Len(cs) - 1) : cs[k + 1].start = cs[k].end

\* C13: when the audio cannot be decoded fragment_audio fails and the run ends
\* there with the exception: no chunk is emitted, and as long as there is no chunk
\* no transcription request and no summarization request is issued and nothing is
\* written; the chunks that are consumed are never a partial set.
C13_DecodeFailureAborts ==
    variant = "V2" =>
        /\ chunks = <<>> =>
              /\ tasks = <<>> /\ replies = <<>> /\ transcriptions = <<>>
              /\ requests = <<>> /\ backend = NoAnswer /\ result = NotCalled
              /\ calls = <<>> /\ files = {}
              /\ pc \in {"start", "fragment", "done"}
              /\ pc = "done" => exit = "raised"
        /\ chunks # <<>> => CoversAudio(chunks)

\* A 40-minute audio that could not be decoded: the run is over, with the
\* exception, no chunk and no request.
C13_Witness ==
    /\ variant = "V2" /\ pc = "done" /\ exit = "raised"
    /\ duration > 10 * 60 * 1000
    /\ chunks = <<>> /\ tasks = <<>> /\ requests = <<>>


\* The summarization requests among the requests sent (the others are the test
\* requests of check_gemini_access).
SummaryRequests == {i \in 1..Len(requests) : requests[i].prompt # HelloPrompt}

\* C14: every request sent to the generative backend is preceded by the fixed
\* delay, and there is no retry: a run issues the summarization request at most
\* once, and when the backend rejects it (rate limit) the call's result is None
\* with no second request.
C14_DelayAndNoRetry ==
    /\ \A i \in 1..Len(requests) : requests[i].slept
    /\ Cardinality(SummaryRequests) <= 1
    /\ (backend = BackendError /\ result.kind # "none") =>
          /\ result = Return(None)
          /\ Cardinality(SummaryRequests) = 1


(***************************************************************************)
(* generate_basic_summary called on its own: transcripts of up to          *)
(* MaxTokens pieces, with sentences, blank fragments and line breaks       *)
(***************************************************************************)
\* The pieces a transcript is made of: two sentences, a line break, a blank
\* fragment, a word without a period.
FallbackTokens == {<<"a", ".", "b", ".">>, <<"\n">>, <<" ", ".", " ">>, <<"c">>}
MaxTokens == 6
FallbackTranscripts ==
    {Join(<<>>, f) : f \in UNION {[1..k -> FallbackTokens] : k \in 0..MaxTokens}}

InitFallback ==
    /\ pc = "call"
    /\ variant = "V1"
    /\ apiKey \in BOOLEAN
    /\ text \in FallbackTranscripts
    /\ duration = 0
    /\ chunks = <<>>
    /\ tasks = <<>>
    /\ replies = <<>>
    /\ transcriptions = <<>>
    /\ backend = NoAnswer
    /\ result = NotCalled
    /\ requests = <<>>
    /\ summary = None
    /\ usedFallback = FALSE
    /\ calls = <<>>
    /\ files = {}
    /\ success_count = 0
    /\ exit = "running"

\* gemini_summary = generate_basic_summary(text_content)
CallGenerateBasicSummary ==
    /\ pc = "call"
    /\ summary' = GenerateBasicSummary(text)
    /\ usedFallback' = TRUE
    /\ pc' = "returned"
    /\ UNCHANGED <<variant, apiKey, duration, chunks, tasks, replies, transcriptions, text,
                   backend, result, requests, calls, files, success_count, exit>>

NextFallback == CallGenerateBasicSummary

SpecFallback == InitFallback /\ [][NextFallback]_vars

(***************************************************************************)
(* Properties of generate_basic_summary (SpecFallback)                     *)
(***************************************************************************)
\* The runs of characters of s between line breaks and periods, in document order;
\* cur is the run under way.
RECURSIVE Runs(_, _)
Runs(s, cur) ==
    IF Len(s) = 0 THEN <<cur>>
    ELSE IF Head(s) \in {"\n", "."} THEN <<cur>> \o Runs(Tail(s), <<>>)
    ELSE Runs(Tail(s), Append(cur, Head(s)))
\* The non-empty sentence fragments of a document, in document order.
IsFragment(p) == Len(p) > 0
Fragments(t) == SelectSeq([i \in 1..Len(Runs(t, <<>>)) |-> Strip(Runs(t, <<>>)[i])], IsFragment)
FirstFive(fs) == SubSeq(fs, 1, IF Len(fs) < 5 THEN Len(fs) ELSE 5)
Periods(s) == Cardinality({i \in 1..Len(s) : s[i] = "."})

\* C15: for every transcript the Fallback Summarizer makes no external call and
\* returns a record with the seven fields whose executive summary is the first
\* min(5, n) non-empty sentence fragments of the whole document, in document
\* order, joined with ". " and ending in "."; it never holds more than 5 fragments.
C15_FallbackSummary ==
    pc = "returned" =>
        /\ requests = <<>> /\ backend = NoAnswer
        /\ IsCompleteRecord(summary)
        /\ summary.v[resumen_ejecutivo] =
              PyStr(Join(<<".", " ">>, FirstFive(Fragments(text))) \o <<".">>)
        /\ Periods(summary.v[resumen_ejecutivo].v) <= 5
        /\ Periods(summary.v[resumen_ejecutivo].v) >= 1
        /\ summary.v[resumen_ejecutivo].v[Len(summary.v[resumen_ejecutivo].v)] = "."

\* Three non-empty lines of two sentences each: six fragments, five of them in
\* the executive summary.
C15_Witness ==
    /\ pc = "returned"
    /\ text = <<"a", ".", "b", ".", "\n", "a", ".", "b", ".", "\n", "a", ".", "b", ".">>
    /\ summary.v[resumen_ejecutivo] =
          PyStr(<<"a", ".", " ", "b", ".", " ", "a", ".", " ", "b", ".", " ", "a", ".">>)


(***************************************************************************)
(* Properties of the summary note (Spec)                                   *)
(***************************************************************************)
\* The field k of the record holds content.
Populated(rec, k) == k \in DOMAIN rec.v /\ Truthy(rec.v[k])
\* The note the renderer of the running variant builds from a record.
Note(rec) == SummaryMarkdown(rec, variant = "V1")
\* The note has a section for the field k.
HasSection(md, k) ==
    IF k = resumen_ejecutivo THEN "resumen_ejecutivo" \in DOMAIN md
    ELSE \E i \in 1..Len(md.sections) : md.sections[i].key = k

\* C16: in every summary note that is rendered, the section of each of the seven
\* fields is present when the field is populated and omitted when its content is
\* empty, and the metadata header and the fixed footer are present.
C16_SectionsFollowContent ==
    \A i \in 1..Len(calls) :
        (calls[i].fn = "create_obsidian_summary_only" /\ Note(calls[i].arg).kind = "return") =>
            /\ Note(calls[i].arg).val.metadatos
            /\ Note(calls[i].arg).val.footer
            /\ \A k \in RequiredKeySet :
                  HasSection(Note(calls[i].arg).val, k) <=> Populated(calls[i].arg, k)


(***************************************************************************)
(* Properties of the fence stripping and of the extraction (SpecSummarizer)*)
(***************************************************************************)
\* The answers without a fence: every object of ObjectAnswers and the texts of
\* FenceContents.
UnwrappedTexts == {ObjectText(p) : p \in SUBSET RequiredKeySet} \cup FenceContents
\* What the running variant's cleaning and call make of the answer c.
CleanOf(c) == IF variant = "V1" THEN CleanContentV1(c) ELSE CleanContentV2(c)
SummaryOf(c) ==
    IF variant = "V1" THEN GenerateGeminiSummaryV1(apiKey, BackendText(c))
    ELSE GenerateGeminiSummaryV2(apiKey, BackendText(c))
\* The record with resumen_ejecutivo = "x" and the other six fields empty lists.
OnlyExecutiveSummary ==
    PyDict([k \in RequiredKeySet |->
               IF k = resumen_ejecutivo THEN PyStr(<<"x">>) ELSE EmptyList])

ExpectedObject(p) ==
    PyDict([k \in p |-> IF k = resumen_ejecutivo THEN PyStr(<<"x">>)
                        ELSE PyList(<<PyStr(<<"p">>)>>)])

\* C18: for an answer that is prose around one JSON object, such as
\* foo {"a":1} bar, the direct parse fails and the call returns the object parsed
\* from the span between the first "{" and the last "}": not the fallback
\* structure and not None.
C18_EmbeddedObjectIsExtracted ==
    (pc = "returned" /\ backend.kind = "text") =>
        /\ backend.text = AnswerProse =>
              /\ DirectParse.kind = "raise"
              /\ result = Return(PyDict(<<"a">> :> PyInt(1)))
        /\ \A p \in SUBSET RequiredKeySet :
              backend.text = WrapProse(ObjectText(p)) =>
                  /\ DirectParse.kind = "raise"
                  /\ result = Return(ExpectedObject(p))


====
